---- MODULE Spec2Model ----
(***************************************************************************)
(* mypy/semanal_pass1.py: SemanticAnalyzerPreAnalysis, the reachability    *)
(* pre-pass over the syntax tree of one module.                            *)
(*                                                                         *)
(* The recursive tree walk is modelled as a state machine with an explicit *)
(* call stack.  The syntax tree is the input of the pass: it is drawn in   *)
(* Init from every tree of at most MaxNodes statements.                    *)
(***************************************************************************)
EXTENDS Integers, Sequences, FiniteSets, TLC

\* Largest number of statements (at all nesting levels) of an input module.
MaxNodes == 3

VARIABLES
    tree,                    \* the parsed module: its nodes in pre-order
    is_stub,                 \* MypyFile.is_stub
    is_package_init,         \* MypyFile.is_package_init_file()
    defs,                    \* MypyFile.defs: the top-level statements
    body,                    \* Block.body of every block
    is_unreachable,          \* the blocks with Block.is_unreachable = True
    is_top_level,            \* ImportBase.is_top_level, where the pass wrote it
    has_end_line,            \* node.end_line is not None, for the nodes whose
                             \* end_line the pass has read (each is read once)
    is_global_scope,         \* self.is_global_scope (before visit_file: whatever
                             \* an earlier use of the visitor left)
    skipped_lines,           \* self.skipped_lines
    file_skipped_lines,      \* MypyFile.skipped_lines
    is_partial_stub_package, \* MypyFile.is_partial_stub_package
    pc,                      \* "entry", "running" or "done": where visit_file is
    stack,                   \* the handlers in progress, innermost last
    visited,                 \* the statements whose handler ran, in order
    pruned,                  \* the blocks visit_block returned from early
    entry_scope,             \* is_global_scope when a definition's visit began
    exit_scope               \* is_global_scope when a definition's visit returned

vars == <<tree, is_stub, is_package_init, defs, body, is_unreachable,
          is_top_level, has_end_line, is_global_scope, skipped_lines,
          file_skipped_lines, is_partial_stub_package, pc, stack, visited,
          pruned, entry_scope, exit_scope>>

-----------------------------------------------------------------------------
(* The syntax tree.  A node is a record; a tree is the sequence of its     *)
(* nodes in pre-order, each with the size of its subtree.  The children of *)
(* a compound statement are its Blocks, the children of a Block are its    *)
(* statements.                                                             *)

MkNode(k, nm, fl, sz) == [kind |-> k, name |-> nm, fails |-> fl, size |-> sz]

\* Statements without a body.  "fails" is assert_will_always_fail(defn, options).
\* ImportBase and Plain stand for the three import forms and for the three
\* statements the pass does not descend into; Concretize picks the form.
LeafNodes ==
    { MkNode("ImportBase", "", FALSE, 1),
      MkNode("Plain", "", FALSE, 1),
      MkNode("AssertStmt", "", TRUE, 1),
      MkNode("AssertStmt", "", FALSE, 1) }

\* Statements with one body: kind and name.
OneBlockHeads ==
    { <<"FuncDef", "__getattr__">>, <<"FuncDef", "f">>, <<"ClassDef", "C">>,
      <<"IfStmt", "">>, <<"MatchStmt", "">>, <<"ForStmt", "">> }

\* Statements with two blocks: if/else (or if/elif), two cases, for/else.
TwoBlockKinds == {"IfStmt", "MatchStmt", "ForStmt"}

Blk(f) == <<MkNode("Block", "", FALSE, Len(f) + 1)>> \o f

RECURSIVE StmtTrees(_), Forests(_)
\* The statements made of exactly n statements.
StmtTrees(n) ==
    IF n = 1 THEN {<<l>> : l \in LeafNodes}
    ELSE {<<MkNode(h[1], h[2], FALSE, Len(f) + 2)>> \o Blk(f) :
              h \in OneBlockHeads, f \in Forests(n - 1)}
         \cup UNION {
              {<<MkNode(k, "", FALSE, Len(f1) + Len(f2) + 3)>> \o Blk(f1) \o Blk(f2) :
                   k \in TwoBlockKinds, f1 \in Forests(a), f2 \in Forests(n - 1 - a)} :
              a \in 1..(n - 2)}

\* The non-empty statement lists made of exactly n statements.
Forests(n) ==
    StmtTrees(n)
    \cup UNION {{t \o f : t \in StmtTrees(a), f \in Forests(n - a)} : a \in 1..(n - 1)}

ImportForms == <<"Import", "ImportFrom", "ImportAll">>
PlainForms == <<"AssignmentStmt", "ExpressionStmt", "ReturnStmt">>

\* The form of an import or plain statement is fixed by its position.
Concretize(t) ==
    [i \in 1..Len(t) |->
        IF t[i].kind = "ImportBase"
        THEN [t[i] EXCEPT !.kind = ImportForms[(i % Len(ImportForms)) + 1]]
        ELSE IF t[i].kind = "Plain"
        THEN [t[i] EXCEPT !.kind = PlainForms[(i % Len(PlainForms)) + 1]]
        ELSE t[i]]

\* A statement with one body.
Compound(k, nm, f) == <<MkNode(k, nm, FALSE, Len(f) + 2)>> \o Blk(f)

\* import a; assert sys.platform == "bogus"; from b import x; from c import *
ScenarioTruncation ==
    << MkNode("Import", "", FALSE, 1), MkNode("AssertStmt", "", TRUE, 1),
       MkNode("ImportFrom", "", FALSE, 1), MkNode("ImportAll", "", FALSE, 1) >>

\* def f(): (def g(): return); import x
ScenarioNestedDef ==
    Compound("FuncDef", "f",
             Compound("FuncDef", "g", <<MkNode("ReturnStmt", "", FALSE, 1)>>)
             \o <<MkNode("Import", "", FALSE, 1)>>)

\* if sys.platform == "win32": import xyz
\* assert sys.platform == "bogus"; x = 1
ScenarioDeadBranch ==
    Compound("IfStmt", "", <<MkNode("Import", "", FALSE, 1)>>)
    \o << MkNode("AssertStmt", "", TRUE, 1), MkNode("AssignmentStmt", "", FALSE, 1) >>

\* The modules the pass is run on: every module of at most MaxNodes
\* statements (the empty module included) and the three scenarios.
Modules ==
    {Concretize(t) : t \in {<<>>} \cup UNION {Forests(n) : n \in 1..MaxNodes}}
    \cup {ScenarioTruncation, ScenarioNestedDef, ScenarioDeadBranch}

Kind(i) == tree[i].kind
Last(i) == i + tree[i].size - 1

RECURSIVE ChildrenFrom(_, _)
ChildrenFrom(c, last) ==
    IF c > last THEN <<>> ELSE <<c>> \o ChildrenFrom(c + tree[c].size, last)

Children(i) == ChildrenFrom(i + 1, Last(i))
TopLevel == ChildrenFrom(1, Len(tree))

BlockNodes == {i \in 1..Len(tree) : Kind(i) = "Block"}
StmtNodes == {i \in 1..Len(tree) : Kind(i) # "Block"}

\* Source positions: every statement starts on a line of its own, in source
\* order; a Block spans from its first statement to the end of its last.
StmtCount(j) == Cardinality({k \in 1..j : Kind(k) # "Block"})
Line(i) == IF Kind(i) = "Block" THEN StmtCount(i) + 1 ELSE StmtCount(i)
EndLine(i) == StmtCount(Last(i))

-----------------------------------------------------------------------------
(* The call stack.  A frame is a handler waiting for a callee:             *)
(*   h  = "file"  visit_file's loop, at defs[i]                            *)
(*        "block" TraverserVisitor.visit_block's loop, at body[n][i]       *)
(*        "func", "class"  between the save and the restore of the scope   *)
(*        "if", "match", "for"  at the i-th block of the statement         *)
(*   ph = "call": the callee is to be called; "ret": it has returned.      *)

Frame(h, n, i, ph, old) == [h |-> h, n |-> n, i |-> i, ph |-> ph, old |-> old]

Top == stack[Len(stack)]
Pop(s) == SubSeq(s, 1, Len(s) - 1)
Push(s, f) == Append(s, f)

\* The statement whose accept() is to be called next, or 0.
CurStmt ==
    IF pc = "running" /\ Top.ph = "call" /\ Top.h \in {"file", "block"}
    THEN (IF Top.h = "file" THEN defs ELSE body[Top.n])[Top.i]
    ELSE 0

\* The block whose accept() is to be called next, or 0.
CurBlock ==
    IF pc = "running" /\ Top.ph = "call" /\ Top.h \notin {"file", "block"}
    THEN Children(Top.n)[Top.i]
    ELSE 0

RECURSIVE Ret(_)
\* The stack once the callee of the innermost frame has returned: loops move
\* on to their next element, handlers with nothing left to do return too.
Ret(s) ==
    LET f == s[Len(s)] IN
    IF f.h \in {"file", "func", "class"}
    THEN [s EXCEPT ![Len(s)].ph = "ret"]
    ELSE IF f.i < Len(IF f.h = "block" THEN body[f.n] ELSE Children(f.n))
    THEN [s EXCEPT ![Len(s)].i = f.i + 1]
    ELSE Ret(Pop(s))

-----------------------------------------------------------------------------
Init ==
    /\ tree \in Modules
    /\ is_stub \in BOOLEAN
    /\ is_package_init \in BOOLEAN
    /\ defs = TopLevel
    /\ body = [b \in BlockNodes |-> Children(b)]
    /\ is_unreachable = {}
    /\ is_top_level = <<>>
    /\ has_end_line = <<>>
    /\ is_global_scope \in BOOLEAN
    /\ skipped_lines = {}
    /\ file_skipped_lines = {}
    /\ is_partial_stub_package = FALSE
    /\ pc = "entry"
    /\ stack = <<>>
    /\ visited = <<>>
    /\ pruned = {}
    /\ entry_scope = <<>>
    /\ exit_scope = <<>>

Input == <<tree, is_stub, is_package_init>>

-----------------------------------------------------------------------------
(* The expressions of the handlers.                                        *)

\* Variant: the flag is not cleared on entering a definition.
ScopeLeftAlone == is_global_scope

\* is_global_scope inside a function or class body (lines 87, 104).
ScopeInsideDef == FALSE

\* Variant: the flag is restored to True whatever the saved value.
RestoredScopeTrue(old) == TRUE

\* self.is_global_scope = old_global_scope (lines 89, 106).
RestoredScope(old) == old

\* node.is_top_level = self.is_global_scope (lines 109, 113, 117).
TopLevelTag(scope) == scope

\* Variant: the package-initializer test is missing.
StubTriggerAnyFile(scope, stub, name, pkg) ==
    scope /\ stub /\ name = "__getattr__"

\* The condition of visit_func_def's if statement (lines 91-96).
StubTrigger(scope, stub, name, pkg) ==
    scope /\ stub /\ name = "__getattr__" /\ pkg

\* isinstance(defn, AssertStmt) and assert_will_always_fail(defn, options).
ShouldTruncate(n) == Kind(n) = "AssertStmt" /\ tree[n].fails

\* if i < len(file.defs) - 1, with i counted from 1.
HasTail(d, i) == i < Len(d)

\* Variant: the range starts at the assert and the test of line 76 is missing.
TruncationLinesFromAssert(d, i, end_known) ==
    IF end_known THEN Line(d[i]) .. EndLine(d[Len(d)]) ELSE {}

\* set(range(next_def.line, last.end_line + 1)), guarded by lines 76 and 78.
TruncationLines(d, i, end_known) ==
    IF HasTail(d, i) /\ end_known
    THEN Line(d[i + 1]) .. EndLine(d[Len(d)])
    ELSE {}

\* Variant: del file.defs[i:], which drops the assert too.
TruncatedDefsFromAssert(d, i) == SubSeq(d, 1, i - 1)

\* file.defs after del file.defs[i + 1:].
TruncatedDefs(d, i) == SubSeq(d, 1, i)

\* set(range(b.line, b.end_line + 1)), guarded by line 131.
BlockLines(b, end_known) ==
    IF end_known THEN Line(b) .. EndLine(b) ELSE {}

\* Variant: self.skipped_lines = lines.
MergedOverwrites(old, lines) == lines

\* self.skipped_lines |= lines.
Merged(old, lines) == old \cup lines

\* Variants: the test of line 130 is missing, or is inverted.
PrunesNever(b) == FALSE
PrunesInverted(b) == b \notin is_unreachable

\* if b.is_unreachable: ... return
Prunes(b) == b \in is_unreachable

\* The blocks infer_reachability_of_if_statement and
\* infer_reachability_of_match_statement may tag: any of the statement's.
OracleTags(n) == SUBSET {Children(n)[k] : k \in 1..Len(Children(n))}

-----------------------------------------------------------------------------
(* The handlers.                                                           *)

\* A statement without a body was visited and its accept() returns.
LeafDone(n) ==
    /\ stack' = Ret(stack)
    /\ visited' = Append(visited, n)

\* visit_file up to its loop (lines 63-68); the loop of an empty module ends
\* at once (line 83).
visit_file ==
    /\ pc = "entry"
    /\ is_global_scope' = TRUE
    /\ skipped_lines' = {}
    /\ IF Len(defs) = 0
       THEN /\ pc' = "done"
            /\ stack' = <<>>
            /\ file_skipped_lines' = {}
       ELSE /\ pc' = "running"
            /\ stack' = <<Frame("file", 0, 1, "call", FALSE)>>
            /\ UNCHANGED file_skipped_lines
    /\ UNCHANGED <<Input, defs, body, is_unreachable, is_top_level, has_end_line,
                   is_partial_stub_package, visited, pruned, entry_scope, exit_scope>>

\* visit_file's loop body after defn.accept(self) (lines 72-82), and line 83
\* when the loop ends.
visit_file_after_accept ==
    /\ pc = "running"
    /\ Top.h = "file"
    /\ Top.ph = "ret"
    /\ LET i == Top.i
           last == defs[Len(defs)]
       IN IF ShouldTruncate(defs[i])
          THEN \E end_known \in (IF HasTail(defs, i) THEN BOOLEAN ELSE {TRUE}) :
                 /\ has_end_line' = IF HasTail(defs, i)
                                    THEN (last :> end_known) @@ has_end_line
                                    ELSE has_end_line
                 /\ skipped_lines' =
                        Merged(skipped_lines, TruncationLines(defs, i, end_known))
                 /\ defs' = TruncatedDefs(defs, i)
                 /\ file_skipped_lines' = skipped_lines'
                 /\ pc' = "done"
                 /\ stack' = <<>>
          ELSE /\ IF HasTail(defs, i)
                  THEN /\ stack' = <<Frame("file", 0, i + 1, "call", FALSE)>>
                       /\ UNCHANGED <<pc, file_skipped_lines>>
                  ELSE /\ stack' = <<>>
                       /\ pc' = "done"
                       /\ file_skipped_lines' = skipped_lines
               /\ UNCHANGED <<defs, skipped_lines, has_end_line>>
    /\ UNCHANGED <<Input, body, is_unreachable, is_top_level, is_global_scope,
                   is_partial_stub_package, visited, pruned, entry_scope, exit_scope>>

\* visit_func_def up to the descent into the body (lines 86-88).
visit_func_def ==
    /\ CurStmt # 0
    /\ Kind(CurStmt) = "FuncDef"
    /\ entry_scope' = (CurStmt :> is_global_scope) @@ entry_scope
    /\ stack' = Push(stack, Frame("func", CurStmt, 1, "call", is_global_scope))
    /\ is_global_scope' = ScopeInsideDef
    /\ visited' = Append(visited, CurStmt)
    /\ UNCHANGED <<Input, defs, body, is_unreachable, is_top_level, has_end_line,
                   skipped_lines, file_skipped_lines, is_partial_stub_package,
                   pc, pruned, exit_scope>>

\* visit_func_def after the descent (lines 89-100).
visit_func_def_return ==
    /\ pc = "running"
    /\ Top.h = "func"
    /\ Top.ph = "ret"
    /\ is_global_scope' = RestoredScope(Top.old)
    /\ is_partial_stub_package' =
           IF StubTrigger(is_global_scope', is_stub, tree[Top.n].name, is_package_init)
           THEN TRUE
           ELSE is_partial_stub_package
    /\ exit_scope' = (Top.n :> is_global_scope') @@ exit_scope
    /\ stack' = Ret(Pop(stack))
    /\ UNCHANGED <<Input, defs, body, is_unreachable, is_top_level, has_end_line,
                   skipped_lines, file_skipped_lines, pc, visited, pruned,
                   entry_scope>>

\* visit_class_def up to the descent into the body (lines 103-105).
visit_class_def ==
    /\ CurStmt # 0
    /\ Kind(CurStmt) = "ClassDef"
    /\ entry_scope' = (CurStmt :> is_global_scope) @@ entry_scope
    /\ stack' = Push(stack, Frame("class", CurStmt, 1, "call", is_global_scope))
    /\ is_global_scope' = ScopeInsideDef
    /\ visited' = Append(visited, CurStmt)
    /\ UNCHANGED <<Input, defs, body, is_unreachable, is_top_level, has_end_line,
                   skipped_lines, file_skipped_lines, is_partial_stub_package,
                   pc, pruned, exit_scope>>

\* visit_class_def after the descent (line 106).
visit_class_def_return ==
    /\ pc = "running"
    /\ Top.h = "class"
    /\ Top.ph = "ret"
    /\ is_global_scope' = RestoredScope(Top.old)
    /\ exit_scope' = (Top.n :> is_global_scope') @@ exit_scope
    /\ stack' = Ret(Pop(stack))
    /\ UNCHANGED <<Input, defs, body, is_unreachable, is_top_level, has_end_line,
                   skipped_lines, file_skipped_lines, is_partial_stub_package,
                   pc, visited, pruned, entry_scope>>

\* The body shared by the three import handlers.
ImportVisit(form) ==
    /\ CurStmt # 0
    /\ Kind(CurStmt) = form
    /\ is_top_level' = (CurStmt :> TopLevelTag(is_global_scope)) @@ is_top_level
    /\ LeafDone(CurStmt)
    /\ UNCHANGED <<Input, defs, body, is_unreachable, has_end_line, is_global_scope,
                   skipped_lines, file_skipped_lines, is_partial_stub_package,
                   pc, pruned, entry_scope, exit_scope>>

visit_import_from == ImportVisit("ImportFrom")
visit_import_all == ImportVisit("ImportAll")
visit_import == ImportVisit("Import")

\* visit_if_stmt: the oracle tags the blocks, then every block is visited.
\* The guard expressions are visited too; they hold no statement.
visit_if_stmt ==
    /\ CurStmt # 0
    /\ Kind(CurStmt) = "IfStmt"
    /\ \E dead \in OracleTags(CurStmt) : is_unreachable' = is_unreachable \cup dead
    /\ stack' = Push(stack, Frame("if", CurStmt, 1, "call", FALSE))
    /\ visited' = Append(visited, CurStmt)
    /\ UNCHANGED <<Input, defs, body, is_top_level, has_end_line, is_global_scope,
                   skipped_lines, file_skipped_lines, is_partial_stub_package,
                   pc, pruned, entry_scope, exit_scope>>

\* Variant: the return of line 134 sits inside the if of line 131, so that an
\* unreachable block without an end line is walked.
visit_block_return_in_if ==
    /\ CurBlock # 0
    /\ IF CurBlock \in is_unreachable
       THEN \E end_known \in BOOLEAN :
              /\ has_end_line' = (CurBlock :> end_known) @@ has_end_line
              /\ skipped_lines' = skipped_lines \cup BlockLines(CurBlock, end_known)
              /\ pruned' = pruned \cup {CurBlock}
              /\ stack' = IF end_known
                          THEN Ret(stack)
                          ELSE Push(stack, Frame("block", CurBlock, 1, "call", FALSE))
       ELSE /\ stack' = Push(stack, Frame("block", CurBlock, 1, "call", FALSE))
            /\ UNCHANGED <<has_end_line, skipped_lines, pruned>>
    /\ UNCHANGED <<Input, defs, body, is_unreachable, is_top_level, is_global_scope,
                   file_skipped_lines, is_partial_stub_package, pc, visited,
                   entry_scope, exit_scope>>

\* Variant: the truncation rule is applied to every block: the statements
\* after a statically failing assert of a reachable block are deleted and
\* their lines recorded.
visit_block_truncating ==
    /\ CurBlock # 0
    /\ IF CurBlock \in is_unreachable
       THEN \E end_known \in BOOLEAN :
              /\ has_end_line' = (CurBlock :> end_known) @@ has_end_line
              /\ skipped_lines' = skipped_lines \cup BlockLines(CurBlock, end_known)
              /\ pruned' = pruned \cup {CurBlock}
              /\ stack' = Ret(stack)
              /\ UNCHANGED body
       ELSE LET stmts == body[CurBlock]
                fail == {j \in 1..Len(stmts) : ShouldTruncate(stmts[j])}
                k == IF fail = {} THEN Len(stmts)
                     ELSE CHOOSE j \in fail : \A j2 \in fail : j <= j2
            IN /\ stack' = Push(stack, Frame("block", CurBlock, 1, "call", FALSE))
               /\ body' = [body EXCEPT ![CurBlock] = SubSeq(stmts, 1, k)]
               /\ skipped_lines' = skipped_lines \cup TruncationLines(stmts, k, TRUE)
               /\ UNCHANGED <<has_end_line, pruned>>
    /\ UNCHANGED <<Input, defs, is_unreachable, is_top_level, is_global_scope,
                   file_skipped_lines, is_partial_stub_package, pc, visited,
                   entry_scope, exit_scope>>

\* visit_block: an unreachable block is recorded and left; any other block is
\* walked by TraverserVisitor.visit_block.
visit_block ==
    /\ CurBlock # 0
    /\ IF Prunes(CurBlock)
       THEN \E end_known \in BOOLEAN :
              /\ has_end_line' = (CurBlock :> end_known) @@ has_end_line
              /\ skipped_lines' = Merged(skipped_lines, BlockLines(CurBlock, end_known))
              /\ pruned' = pruned \cup {CurBlock}
              /\ stack' = Ret(stack)
       ELSE /\ stack' = Push(stack, Frame("block", CurBlock, 1, "call", FALSE))
            /\ UNCHANGED <<has_end_line, skipped_lines, pruned>>
    /\ UNCHANGED <<Input, defs, body, is_unreachable, is_top_level, is_global_scope,
                   file_skipped_lines, is_partial_stub_package, pc, visited,
                   entry_scope, exit_scope>>

\* visit_match_stmt: the oracle tags the case bodies, then every body is visited.
\* The guards are visited too; they hold no statement.
visit_match_stmt ==
    /\ CurStmt # 0
    /\ Kind(CurStmt) = "MatchStmt"
    /\ \E dead \in OracleTags(CurStmt) : is_unreachable' = is_unreachable \cup dead
    /\ stack' = Push(stack, Frame("match", CurStmt, 1, "call", FALSE))
    /\ visited' = Append(visited, CurStmt)
    /\ UNCHANGED <<Input, defs, body, is_top_level, has_end_line, is_global_scope,
                   skipped_lines, file_skipped_lines, is_partial_stub_package,
                   pc, pruned, entry_scope, exit_scope>>

\* The body shared by the handlers that do nothing.
PassVisit(form) ==
    /\ CurStmt # 0
    /\ Kind(CurStmt) = form
    /\ LeafDone(CurStmt)
    /\ UNCHANGED <<Input, defs, body, is_unreachable, is_top_level, has_end_line,
                   is_global_scope, skipped_lines, file_skipped_lines,
                   is_partial_stub_package, pc, pruned, entry_scope, exit_scope>>

visit_assignment_stmt == PassVisit("AssignmentStmt")
visit_expression_stmt == PassVisit("ExpressionStmt")
visit_return_stmt == PassVisit("ReturnStmt")

\* TraverserVisitor.visit_assert_stmt: an assert holds expressions only.
visit_assert_stmt == PassVisit("AssertStmt")

\* visit_for_stmt: the body, then the else block if there is one.
visit_for_stmt ==
    /\ CurStmt # 0
    /\ Kind(CurStmt) = "ForStmt"
    /\ stack' = Push(stack, Frame("for", CurStmt, 1, "call", FALSE))
    /\ visited' = Append(visited, CurStmt)
    /\ UNCHANGED <<Input, defs, body, is_unreachable, is_top_level, has_end_line,
                   is_global_scope, skipped_lines, file_skipped_lines,
                   is_partial_stub_package, pc, pruned, entry_scope, exit_scope>>

Next ==
    \/ visit_file
    \/ visit_file_after_accept
    \/ visit_func_def
    \/ visit_func_def_return
    \/ visit_class_def
    \/ visit_class_def_return
    \/ visit_import_from
    \/ visit_import_all
    \/ visit_import
    \/ visit_if_stmt
    \/ visit_block
    \/ visit_match_stmt
    \/ visit_assignment_stmt
    \/ visit_expression_stmt
    \/ visit_return_stmt
    \/ visit_assert_stmt
    \/ visit_for_stmt

Spec == Init /\ [][Next]_vars

-----------------------------------------------------------------------------
(* Vocabulary of the properties.                                           *)

Done == pc = "done"

IsImport(n) == Kind(n) \in {"Import", "ImportFrom", "ImportAll"}
IsDef(n) == Kind(n) \in {"FuncDef", "ClassDef"}
IsFailingAssert(n) == Kind(n) = "AssertStmt" /\ tree[n].fails

Visited == {visited[k] : k \in 1..Len(visited)}
Pos(n) == CHOOSE k \in 1..Len(visited) : visited[k] = n

\* The nodes that lexically enclose node m, and those inside node n.
Ancestors(m) == {a \in 1..(m - 1) : Last(a) >= m}
Inside(n) == (n + 1)..Last(n)
Enclosed(m) == \E a \in Ancestors(m) : IsDef(a)

Span(n) == Line(n)..EndLine(n)
EndKnown(n) == n \in DOMAIN has_end_line /\ has_end_line[n]

\* The position among the original top-level statements of the first assert
\* for which the failing-assertion predicate holds, or 0.
FailingTops == {i \in 1..Len(TopLevel) : IsFailingAssert(TopLevel[i])}
FirstFailing ==
    IF FailingTops = {} THEN 0
    ELSE CHOOSE i \in FailingTops : \A j \in FailingTops : i <= j

LastTop == TopLevel[Len(TopLevel)]

\* The truncating assert has been handled and had statements after it.
Truncated ==
    /\ Done
    /\ FirstFailing # 0
    /\ FirstFailing < Len(TopLevel)

\* From the start of the statement after the truncating assert to the end of
\* the last top-level statement.
TailSpan == Line(TopLevel[FirstFailing + 1])..EndLine(LastTop)

\* The lines recorded for the unreachable blocks the walker reached.
BlockSkips == UNION {Span(b) : b \in {p \in pruned : EndKnown(p)}}

\* The lines recorded by the truncation.
TailSkips == IF Truncated /\ EndKnown(LastTop) THEN TailSpan ELSE {}

Elems(q) == {q[k] : k \in 1..Len(q)}

\* A module-level if statement, a block of it that the oracle found dead, and
\* an import in that block: <<if statement, block, import>>.
DeadPlatformImports ==
    {t \in StmtNodes \X BlockNodes \X StmtNodes :
        /\ Kind(t[1]) = "IfStmt"
        /\ t[1] \in Elems(TopLevel)
        /\ t[2] \in Elems(Children(t[1]))
        /\ t[2] \in is_unreachable
        /\ t[3] \in Elems(body[t[2]])
        /\ IsImport(t[3])}

\* The if and match statements the walker reached, each with a block of it
\* that the oracle left untagged: <<statement, block>>.
UndeterminedArms ==
    {t \in StmtNodes \X BlockNodes :
        /\ Kind(t[1]) \in {"IfStmt", "MatchStmt"}
        /\ t[1] \in Visited
        /\ t[2] \in Elems(Children(t[1]))
        /\ t[2] \notin is_unreachable}

-----------------------------------------------------------------------------
(* C1                                                                      *)

\* C1: Truncation preserves prefix.  When the first statically failing
\* top-level assert is statement k and is not the last one, the top-level
\* sequence after visit_file is exactly the first k original statements, the
\* pass has read the end line of the last original statement, and when that
\* end line is present every line from the start of statement k+1 to the end
\* of the last statement is in the module's skipped-line set.
C1_TruncationPreservesPrefix ==
    (Done /\ FirstFailing # 0 /\ FirstFailing < Len(TopLevel)) =>
        /\ defs = SubSeq(TopLevel, 1, FirstFailing)
        /\ LastTop \in DOMAIN has_end_line
        /\ has_end_line[LastTop] => TailSpan \subseteq file_skipped_lines

\* A module truncated after its second statement, with end lines present.
C1_Witness ==
    /\ Done
    /\ FirstFailing = 2
    /\ Len(TopLevel) > 2
    /\ Len(defs) = 2
    /\ EndKnown(LastTop)
    /\ TailSpan # {}
    /\ TailSpan \subseteq file_skipped_lines

-----------------------------------------------------------------------------
(* C6                                                                      *)

\* C6: No truncation when the assert is last.  When the first statically
\* failing top-level assert is the final top-level statement, the top-level
\* sequence after the pass is the original one and the skipped-line set
\* holds only the lines recorded for unreachable blocks.
C6_NoTruncationWhenAssertIsLast ==
    (Done /\ FirstFailing # 0 /\ FirstFailing = Len(TopLevel)) =>
        /\ defs = TopLevel
        /\ skipped_lines = BlockSkips
        /\ file_skipped_lines = BlockSkips

\* A failing assert that ends a module in which a block was skipped before.
C6_Witness ==
    /\ Done
    /\ FirstFailing # 0
    /\ FirstFailing = Len(TopLevel)
    /\ Len(TopLevel) > 1
    /\ TopLevel[FirstFailing] \in Visited
    /\ file_skipped_lines # {}

-----------------------------------------------------------------------------
(* C3                                                                      *)

\* C3: Top-level tagging.  Every import, from-import or wildcard import the
\* walker has reached carries a top-level tag written by the pass: true when
\* no function or class definition encloses it, false when one does.
C3_TopLevelTagging ==
    \A m \in Visited :
        IsImport(m) =>
            /\ m \in DOMAIN is_top_level
            /\ is_top_level[m] = ~Enclosed(m)

\* An import tagged false that follows a nested definition in a function body.
C3_Witness ==
    \E m \in Visited :
        /\ IsImport(m)
        /\ is_top_level[m] = FALSE
        /\ \E f \in Ancestors(m), g \in Visited :
              /\ Kind(f) = "FuncDef"
              /\ IsDef(g)
              /\ f \in Ancestors(g)
              /\ Last(g) < m
              /\ g \in DOMAIN exit_scope

-----------------------------------------------------------------------------
(* C7                                                                      *)

\* C7: Scope restore.  The module-scope flag right after the visit of a
\* function or class definition returns equals its value right before the
\* visit began, it is false for as long as a definition is being visited, and
\* it is true when visit_file has finished.
C7_ScopeRestore ==
    /\ \A n \in DOMAIN exit_scope : exit_scope[n] = entry_scope[n]
    /\ (\E k \in 1..Len(stack) : stack[k].h \in {"func", "class"}) =>
           is_global_scope = FALSE
    /\ Done => is_global_scope = TRUE

\* A function nested in a function has been left, and the pass has finished.
C7_Witness ==
    /\ Done
    /\ \E n \in DOMAIN exit_scope, a \in DOMAIN exit_scope :
          /\ Kind(n) = "FuncDef"
          /\ Kind(a) = "FuncDef"
          /\ a \in Ancestors(n)
          /\ exit_scope[n] = FALSE
          /\ exit_scope[a] = TRUE

-----------------------------------------------------------------------------
(* C2                                                                      *)

\* C2 as stated: after the pass, an import in a dead block of a module-level
\* if statement has its top-level tag set to true, the block is marked
\* unreachable and the block's lines are in the skipped-line set.
C2_AsStated ==
    Done =>
        \A t \in DeadPlatformImports :
            /\ t[3] \in DOMAIN is_top_level
            /\ is_top_level[t[3]] = TRUE
            /\ t[2] \in is_unreachable
            /\ Span(t[2]) \subseteq file_skipped_lines

\* C2, amended: after the pass, an import in a dead block of a module-level
\* if statement has no top-level tag written by the pass (the walker never
\* reached it), the block is marked unreachable and was skipped, and the
\* block's lines are in the skipped-line set when the block has an end line.
C2_DeadPlatformImport ==
    Done =>
        \A t \in DeadPlatformImports :
            /\ t[3] \notin DOMAIN is_top_level
            /\ t[3] \notin Visited
            /\ t[2] \in is_unreachable
            /\ t[2] \in pruned
            /\ t[2] \in DOMAIN has_end_line
            /\ has_end_line[t[2]] => Span(t[2]) \subseteq file_skipped_lines

\* The pass has finished on a module with such an import, end line present.
C2_Witness ==
    /\ Done
    /\ \E t \in DeadPlatformImports :
          /\ EndKnown(t[2])
          /\ Line(t[3]) \in file_skipped_lines
          /\ t[1] \in Visited

-----------------------------------------------------------------------------
(* C4                                                                      *)

\* The function definitions that satisfied the trigger when they were left.
StubTriggers ==
    {n \in DOMAIN exit_scope :
        /\ Kind(n) = "FuncDef"
        /\ n \in Visited
        /\ exit_scope[n] = TRUE
        /\ is_stub
        /\ tree[n].name = "__getattr__"
        /\ is_package_init}

\* C4: Stub marker exclusivity.  Starting from false, the stub-package flag
\* is true exactly when some visited function definition was left at module
\* scope, in a stub, under the name __getattr__, in a package initializer;
\* and a step of the pass never sets the flag back to false.
C4_StubMarkerExclusivity ==
    /\ [](is_partial_stub_package <=> StubTriggers # {})
    /\ [][is_partial_stub_package => is_partial_stub_package']_vars

\* The flag is set although the module also holds a nested __getattr__.
C4_Witness ==
    /\ Done
    /\ is_partial_stub_package
    /\ Cardinality(StubTriggers) = 1
    /\ \E n \in DOMAIN exit_scope :
          /\ tree[n].name = "__getattr__"
          /\ exit_scope[n] = FALSE

-----------------------------------------------------------------------------
(* C5                                                                      *)

\* C5: Conservative pruning.  After the pass, for every arm of a visited if
\* statement and every case of a visited match statement whose block the
\* oracle left untagged: every statement of the block was visited, in the
\* block's order; every import in it has its top-level tag; the block was not
\* skipped and none of its statements' lines is in the skipped-line set.
C5_ConservativePruning ==
    Done =>
        \A t \in UndeterminedArms :
            LET stmts == body[t[2]] IN
            /\ t[2] \notin pruned
            /\ \A j \in 1..Len(stmts) :
                  /\ stmts[j] \in Visited
                  /\ j > 1 => Pos(stmts[j - 1]) < Pos(stmts[j])
                  /\ IsImport(stmts[j]) => stmts[j] \in DOMAIN is_top_level
                  /\ Line(stmts[j]) \notin skipped_lines

\* An untagged arm with two statements, the second an import that was tagged.
C5_Witness ==
    /\ Done
    /\ \E t \in UndeterminedArms :
          /\ Len(body[t[2]]) > 1
          /\ IsImport(body[t[2]][2])
          /\ body[t[2]][2] \in DOMAIN is_top_level

-----------------------------------------------------------------------------
(* C8                                                                      *)

\* A line that the claim allows in the skipped-line set.
Accounted(l) ==
    \/ \E b \in pruned : b \in is_unreachable /\ l \in Span(b)
    \/ /\ FirstFailing # 0
       /\ FirstFailing < Len(TopLevel)
       /\ TopLevel[FirstFailing] \in Visited
       /\ l \in TailSpan

\* C8: Monotonic skip set.  Every step of the pass leaves the skipped-line
\* set a superset of what it was, and every line in it lies in the span of an
\* unreachable block the walker reached or in the span from the statement
\* after the truncating assert to the end of the last top-level statement.
C8_MonotonicSkipSet ==
    /\ [](\A l \in skipped_lines \cup file_skipped_lines : Accounted(l))
    /\ [][/\ skipped_lines \subseteq skipped_lines'
          /\ file_skipped_lines \subseteq file_skipped_lines']_vars

\* Two blocks were skipped one after the other and both are recorded.
C8_Witness ==
    /\ Done
    /\ Cardinality({b \in pruned : EndKnown(b)}) > 1
    /\ Cardinality(file_skipped_lines) > 1

-----------------------------------------------------------------------------
(* C9                                                                      *)

\* C9: Pruning does not depend on end lines.  No statement inside a block
\* that visit_block found unreachable is ever visited, with or without an end
\* line; the skipped-line set is exactly the spans of the skipped blocks that
\* have an end line plus the truncation span when the last top-level
\* statement has one; truncation removes the statements after the failing
\* assert whether or not an end line is there; and the pass goes on to its
\* end.
C9_PruningWithoutEndLines ==
    /\ \A b \in pruned :
          /\ b \in DOMAIN has_end_line
          /\ Inside(b) \cap Visited = {}
    /\ skipped_lines = BlockSkips \cup TailSkips
    /\ Truncated => defs = SubSeq(TopLevel, 1, FirstFailing)
    /\ ~Done => ENABLED Next

\* A block without an end line was skipped and the module, whose last
\* statement has no end line either, was truncated.
C9_Witness ==
    /\ Truncated
    /\ Len(defs) < Len(TopLevel)
    /\ ~has_end_line[LastTop]
    /\ \E b \in pruned : ~has_end_line[b]
    /\ skipped_lines = {}

-----------------------------------------------------------------------------
(* C10                                                                     *)

\* The nodes after the first statically failing top-level assert.
AfterFailing == IF FirstFailing = 0 THEN {} ELSE (TopLevel[FirstFailing] + 1)..Len(tree)

\* C10: Truncation applies only at top level and only once.  No block's
\* statement sequence ever changes; the top-level sequence changes only by
\* the truncation after the first failing top-level assert; lines enter the
\* skipped-line set only for unreachable blocks and for that truncation; and
\* nothing after the first failing top-level assert is visited, tagged,
\* inspected by the oracle, skipped as a block or able to set the
\* stub-package flag.
C10_TruncationOnlyAtTopLevel ==
    /\ body = [b \in BlockNodes |-> Children(b)]
    /\ defs = IF Truncated THEN SubSeq(TopLevel, 1, FirstFailing) ELSE TopLevel
    /\ skipped_lines = BlockSkips \cup TailSkips
    /\ Visited \cap AfterFailing = {}
    /\ DOMAIN is_top_level \cap AfterFailing = {}
    /\ is_unreachable \cap AfterFailing = {}
    /\ pruned \cap AfterFailing = {}
    /\ StubTriggers \cap AfterFailing = {}

\* A failing assert in a function body was visited, so was the statement
\* after it, and nothing was removed or recorded.
C10_Witness ==
    /\ Done
    /\ defs = TopLevel
    /\ skipped_lines = {}
    /\ \E a \in Visited, b \in BlockNodes :
          /\ IsFailingAssert(a)
          /\ Kind(b - 1) = "FuncDef"
          /\ Len(body[b]) > 1
          /\ body[b][1] = a
          /\ body[b][2] \in Visited

=============================================================================
